---- MODULE Spec2Model ----
(***************************************************************************)
(* Model of the plank ("seesaw") engine of js/common/model/Plank.js.       *)
(*                                                                         *)
(* Numbers are fixed point.  Angles and angular velocities are integers in *)
(* units of 1e-5 rad (AngleScale), lengths are integers in millimetres,    *)
(* time steps are integers in centiseconds.  The thresholds of step()      *)
(* (1e-5, 1e-4, 0.001) are 1, 10 and 100 angle units.                      *)
(*                                                                         *)
(* JavaScript semantics are kept where the source decides them: a call of  *)
(* a method an Array does not have, or of a method the Plank does not      *)
(* define, or a property read on an undefined `this` inside a strict-mode  *)
(* callback, throws TypeError and abandons the running operation at that   *)
(* statement; Array.prototype.splice returns the REMOVED elements;         *)
(* a comparison of a number with an array or with undefined is false.      *)
(* Classes that are imported but not part of the sources (ObservableArray, *)
(* Vector2, Matrix3, Shape, Mass) are taken to behave as the array, vector *)
(* and shape they name.                                                    *)
(***************************************************************************)
EXTENDS Integers, Sequences, FiniteSets, TLC

VARIABLES
    tiltAngle,          \* Plank.tiltAngle, 1e-5 rad
    angularVelocity,    \* Plank.angularVelocity, 1e-5 rad per step-second
    currentNetTorque,   \* Plank.currentNetTorque
    turningRight,       \* Plank.turningRight ("temp for testing" flag)
    shape,              \* Plank.shape: the angle the outline was last rotated by
    userControlled,     \* Plank.userControlled
    columnState,        \* columnState.value (external property)
    massesOnSurface,    \* Plank.massesOnSurface: sequence of masses
    forceVectors,       \* Plank.forceVectors: sequence of the masses the vectors were made for
    massDistancePairs,  \* Plank.massDistancePairs: the array's elements and its keyed properties
    observers,          \* masses on which a userControlledObserver is linked
    massState,          \* per mass: position, rotationAngle, onPlank
    call                \* the last operation called, its arguments and its outcome

vars == <<tiltAngle, angularVelocity, currentNetTorque, turningRight, shape,
          userControlled, columnState, massesOnSurface, forceVectors,
          massDistancePairs, observers, massState, call>>

plankVars == <<tiltAngle, angularVelocity, currentNetTorque, turningRight, shape>>

collectionVars == <<massesOnSurface, forceVectors, massDistancePairs, observers>>

-----------------------------------------------------------------------------
(* Units and arithmetic *)

\* 1 rad in angle units
AngleScale == 100000

Abs(x) == IF x < 0 THEN -x ELSE x

\* division truncating toward zero (symmetric in the sign of a)
TDiv(a, b) == IF a < 0 THEN -((-a) \div b) ELSE a \div b

\* division rounding to nearest
RDiv(a, b) == IF a < 0 THEN -(((-a) + b \div 2) \div b) ELSE (a + b \div 2) \div b

\* sin, cos, tan of an angle t (angle units), scaled by AngleScale; third-order
\* series, exact to one unit for |t| <= 0.1 rad
Sin(t) == t - TDiv(TDiv(t * t, 60000) * t, 1000000)

Cos(t) == AngleScale - TDiv(t * t, 2 * AngleScale)

Tan(t) == t + TDiv(TDiv(t * t, 30000) * t, 1000000)

Vec(x, y) == [x |-> x, y |-> y]

\* Vector2.plus
Plus(a, b) == Vec(a.x + b.x, a.y + b.y)

\* Vector2.rotated( angle )
Rotated(v, t) == Vec(RDiv(v.x * Cos(t) - v.y * Sin(t), AngleScale),
                     RDiv(v.x * Sin(t) + v.y * Cos(t), AngleScale))

\* Matrix3.rotationAround( angle, x, y ) applied to a point
RotatedAround(v, t, c) == Plus(c, Rotated(Vec(v.x - c.x, v.y - c.y), t))

\* squared Vector2.distance, mm^2
DistSq(a, b) == (a.x - b.x) * (a.x - b.x) + (a.y - b.y) * (a.y - b.y)

-----------------------------------------------------------------------------
(* Constants of Plank.js, in millimetres and kilograms *)

PLANK_LENGTH == 4500

PLANK_THICKNESS == 50

PLANK_MASS == 75

INTER_SNAP_TO_MARKER_DISTANCE == 250

\* Math.floor( PLANK_LENGTH / INTER_SNAP_TO_MARKER_DISTANCE - 1 )
NUM_SNAP_TO_LOCATIONS == PLANK_LENGTH \div INTER_SNAP_TO_MARKER_DISTANCE - 1

\* 12 * MOMENT_OF_INERTIA in kg mm^2 (the division by 12 is done in angularAccelerationOf)
MOMENT_OF_INERTIA_12 ==
    PLANK_MASS * (PLANK_LENGTH * PLANK_LENGTH + PLANK_THICKNESS * PLANK_THICKNESS)

-----------------------------------------------------------------------------
(* Constructor arguments *)

\* location.y: the bottom of the plank is 71 mm above the ground
LocationY == 71

\* location: bottom centre of the plank
bottomCenterLocation == Vec(0, LocationY)

\* pivotPoint: at the bottom centre
pivotPoint == Vec(0, LocationY)

\* Math.asin( location.y / ( PLANK_LENGTH / 2 ) ) = asin(71/2250) = 0.03156 rad
maxTiltAngle == 3156

ColumnStates == {"none", "singleColumn", "doubleColumns"}

Masses == {"m1", "m2", "m3"}

\* mass values, kg: two single bricks and a stack of two (BRICK_MASS * numBricks)
BRICK_MASS == 5

massValue(m) == IF m = "m3" THEN 2 * BRICK_MASS ELSE BRICK_MASS

\* heights of the masses, mm
MassHeight == 400

-----------------------------------------------------------------------------
(* Bounds of the model *)

\* a small and a large time step, centiseconds (1 s and 50 s)
DtSmall == 100

DtLarge == 5000

DtValues == {DtSmall, DtLarge}

\* the longest sequence of masses a plank starts with in SpecAttached
MaxAttached == 2

\* where the masses lie before they are put on the plank: above the plank near
\* the slot at -0.5 m, beside the plank, above the plank near the slot at +1.0 m
InitialPosition(m) ==
    IF m = "m1" THEN Vec(-480, 300) ELSE IF m = "m2" THEN Vec(4000, 500) ELSE Vec(1010, 300)

\* the slots the masses of an initially loaded plank sit at, mm from the centre
SeedDistance(m) == IF m = "m1" THEN -500 ELSE IF m = "m2" THEN 500 ELSE 1000

\* the calls of addMassToSurfaceAt that are made: a free slot, left and right of
\* the plank's ends
AddAtInputs == {<<"m1", 1000>>, <<"m2", -3000>>, <<"m3", 3000>>}

\* the heights of the pivot points planks are constructed with: below the
\* plank, at its bottom centre, above it
PivotYInputs == {LocationY - PLANK_THICKNESS, LocationY, LocationY + 10 * PLANK_THICKNESS}

\* angular velocities of a plank on which step is called, angle units per
\* second: at rest, at and just above the threshold of 1e-5, and within the
\* threshold of cancelling one step's acceleration
VelocityInputs == {0, 1, 2, -788, -789}

\* the angles forceAngle is called with: beyond the left limit, within the
\* limits, beyond the right limit
ForceAngleInputs == {-4000, 1000, 4000}

\* the drop points slot resolution is asked about
DropPoints == {Vec(-480, 300), Vec(510, 300)}

-----------------------------------------------------------------------------
(* Outcomes of calls *)

\* a call that returned v, and a call that threw e
Returns(v) == [error |-> "none", value |-> v]

Throws(e) == [error |-> e, value |-> <<>>]

Called(op, mass, arg, result) == [op |-> op, mass |-> mass, arg |-> arg, result |-> result]

-----------------------------------------------------------------------------
(* Geometry *)

\* getPlankSurfaceCenter
getPlankSurfaceCenter(tilt) ==
    Plus(bottomCenterLocation, Rotated(Vec(0, PLANK_THICKNESS), tilt))

\* getSurfaceYValue( xValue )
getSurfaceYValue(xValue, tilt) ==
    LET c == getPlankSurfaceCenter(tilt)
        b == c.y - RDiv(Tan(tilt) * c.x, AngleScale)
    IN  RDiv(Tan(tilt) * xValue, AngleScale) + b

\* the corners of the outline built by the constructor (unrotatedShape)
UnrotatedCorners ==
    { Vec(bottomCenterLocation.x + sx * (PLANK_LENGTH \div 2), bottomCenterLocation.y + dy) :
        sx \in {-1, 1}, dy \in {0, PLANK_THICKNESS} }

\* shape.bounds.minX and maxX of the outline rotated by `angle` about the pivot
ShapeXs(angle) == { RotatedAround(c, angle, pivotPoint).x : c \in UnrotatedCorners }

BoundsMinX(angle) == CHOOSE x \in ShapeXs(angle) : \A y \in ShapeXs(angle) : x <= y

BoundsMaxX(angle) == CHOOSE x \in ShapeXs(angle) : \A y \in ShapeXs(angle) : x >= y

\* isPointAbovePlank( p )
isPointAbovePlank(p, tilt, outline) ==
    /\ p.x >= BoundsMinX(outline)
    /\ p.x <= BoundsMaxX(outline)
    /\ p.y > getSurfaceYValue(p.x, tilt)

\* getMiddlePoint of a mass at `position`
getMiddlePoint(position) == Vec(position.x, position.y + MassHeight \div 2)

\* integer square root, for Vector2.distance
ISqrt(n) == CHOOSE r \in 0..(2 * PLANK_LENGTH) : r * r <= n /\ (r + 1) * (r + 1) > n

-----------------------------------------------------------------------------
(* Slot resolution *)

\* getSnapToLocations with the list filled by push: the NUM_SNAP_TO_LOCATIONS
\* points of the surface, one marker distance apart, rotated about the pivot
getSnapToLocationsFilled(tilt) ==
    Returns([i \in 1..NUM_SNAP_TO_LOCATIONS |->
                RotatedAround(Vec(bottomCenterLocation.x - PLANK_LENGTH \div 2
                                     + i * INTER_SNAP_TO_MARKER_DISTANCE,
                                  bottomCenterLocation.y + PLANK_THICKNESS),
                              tilt, pivotPoint)])

\* getSnapToLocations: the list is built with `new Array( NUM_SNAP_TO_LOCATIONS )`
\* and filled with snapToLocations.add( ... ); an Array has no method add, so the
\* first pass of the loop throws TypeError.
getSnapToLocations(tilt) ==
    IF NUM_SNAP_TO_LOCATIONS > 0 THEN Throws("TypeError") ELSE Returns(<<>>)

\* candidateOpenLocations.splice( NUM_SNAP_TO_LOCATIONS / 2, 1 ): the element at
\* the (0-based) index floor(NUM/2) is dropped when NUM is odd
WithoutCentre(locs) ==
    IF NUM_SNAP_TO_LOCATIONS % 2 = 1 /\ Len(locs) > NUM_SNAP_TO_LOCATIONS \div 2
    THEN [i \in 1..(Len(locs) - 1) |->
            IF i <= NUM_SNAP_TO_LOCATIONS \div 2 THEN locs[i] ELSE locs[i + 1]]
    ELSE locs

\* lines 285-293: for a candidate within INTER_SNAP_TO_MARKER_DISTANCE / 10 of a
\* mass, _.without( candidateOpenLocations, massesOnSurface[j] ) takes the MASS
\* out of the list of locations; no location is a mass, so the list is unchanged
WithoutOccupied(locs, masses, positions) == locs

\* lines 296-305: the nearest candidate within one marker distance horizontally;
\* the first of equally near candidates is kept (strict <)
RECURSIVE Closest(_, _, _)
Closest(locs, p, best) ==
    IF locs = <<>> THEN best
    ELSE LET c == Head(locs)
             better == /\ Abs(c.x - p.x) <= INTER_SNAP_TO_MARKER_DISTANCE
                       /\ (best = <<>> \/ DistSq(c, p) < DistSq(best[1], p))
         IN  Closest(Tail(locs), p, IF better THEN <<c>> ELSE best)

\* getOpenMassDroppedLocation( p ): <<>> stands for null
getOpenMassDroppedLocation(p, tilt, masses, positions) ==
    LET snap == getSnapToLocations(tilt)
    IN  IF snap.error # "none" THEN snap
        ELSE Returns(Closest(WithoutOccupied(WithoutCentre(snap.value), masses, positions),
                             p, <<>>))

-----------------------------------------------------------------------------
(* Torque and angular integration *)

\* updateNetTorque: the torque and the turningRight flag it leaves.  The sum over
\* the masses and the plank's own torque are commented out in the source; what
\* runs is the "temp for test and demo" branch.  `1 * turningRight ? 1 : -1`
\* parses as `(1 * turningRight) ? 1 : -1`.  0.001 rad is 100 angle units.
updateNetTorque(tilt, right, columns) ==
    IF columns = "none"
    THEN LET flip == \/ (right /\ maxTiltAngle - tilt < 100)
                     \/ (~right /\ maxTiltAngle + tilt < 100)
             r == IF flip THEN ~right ELSE right
         IN  [torque |-> IF r THEN 1 ELSE -1, turningRight |-> r]
    ELSE [torque |-> 0, turningRight |-> right]

\* currentNetTorque / MOMENT_OF_INERTIA in angle units: torque (N m) * AngleScale
\* * 12 * 1000000 (mm^2 per m^2) / MOMENT_OF_INERTIA_12, with the common factor
\* 187500 = 125 * 1500 cancelled so that the product stays within 32 bits
angularAccelerationOf(torque) ==
    TDiv(torque * ((AngleScale \div 125) * ((12 * 1000000) \div 1500)),
         MOMENT_OF_INERTIA_12 \div 187500)

\* no threshold: the value as it is
ThresholdedNot(v) == v

\* Math.abs( v ) > 0.00001 ? v : 0
Thresholded(v) == IF Abs(v) > 1 THEN v ELSE 0

\* the end stop that leaves the velocity as it is
ClampedVelocityKept(tilt, velocity) == velocity

\* lines 126-135 of step: the end stop and the levelling threshold (1e-4 rad)
ClampedVelocity(tilt, velocity) == IF Abs(tilt) > maxTiltAngle THEN 0 ELSE velocity

\* the levelling threshold alone, the end stop left out
ClampedTiltNoStop(tilt) == IF Abs(tilt) < 10 THEN 0 ELSE tilt

ClampedTilt(tilt) ==
    IF Abs(tilt) > maxTiltAngle
    THEN maxTiltAngle * (IF tilt < 0 THEN -1 ELSE 1)
    ELSE IF Abs(tilt) < 10 THEN 0 ELSE tilt

\* updatePlank: `this.unrotatedShape.minY` is not a member of the shape (the file
\* reads the extent as unrotatedShape.bounds.*), so the guard compares with
\* undefined, is false, and nothing is thrown; bottomCenterPoint, which it also
\* writes, is read nowhere.  The shape becomes the outline rotated by the tilt.
updatePlank(tilt) == tilt

\* updateMassPositions: the callback reads this.getMassDistanceFromCenter with
\* `this` undefined (strict mode), so it throws on the first mass and moves
\* nothing; with no mass on the surface it only refreshes the force vectors.
updateMassPositions(masses) == IF masses # <<>> THEN Throws("TypeError") ELSE Returns(<<>>)

\* what a call reports: the error thrown, or `value` on a normal return
Outcome(r, value) == IF r.error # "none" THEN r.error ELSE value

\* step that recomputes the shape and the mass positions on every call, whether
\* the tilt changed or not
stepRecomputing(dt) ==
    IF userControlled
    THEN /\ call' = Called("step", "none", dt, "ok")
         /\ UNCHANGED <<plankVars, userControlled, columnState, collectionVars, massState>>
    ELSE LET t    == updateNetTorque(tiltAngle, turningRight, columnState)
             acc  == Thresholded(angularAccelerationOf(t.torque))
             vel  == Thresholded(angularVelocity + acc)
             raw  == tiltAngle + TDiv(vel * dt, 100)
             tilt == ClampedTilt(raw)
         IN  /\ currentNetTorque' = t.torque
             /\ turningRight' = t.turningRight
             /\ angularVelocity' = ClampedVelocity(raw, vel)
             /\ tiltAngle' = tilt
             /\ shape' = updatePlank(tilt)
             /\ call' = Called("step", "none", dt,
                               Outcome(updateMassPositions(massesOnSurface), "ok"))
             /\ UNCHANGED <<userControlled, columnState, collectionVars, massState>>

\* step without the test of userControlled: the integration runs on every call
stepAlways(dt) ==
    LET t    == updateNetTorque(tiltAngle, turningRight, columnState)
        acc  == Thresholded(angularAccelerationOf(t.torque))
        vel  == Thresholded(angularVelocity + acc)
        raw  == tiltAngle + TDiv(vel * dt, 100)
        tilt == ClampedTilt(raw)
    IN  /\ currentNetTorque' = t.torque
        /\ turningRight' = t.turningRight
        /\ angularVelocity' = ClampedVelocity(raw, vel)
        /\ tiltAngle' = tilt
        /\ shape' = IF tilt # tiltAngle THEN updatePlank(tilt) ELSE shape
        /\ call' = Called("step", "none", dt,
                          IF tilt # tiltAngle
                          THEN Outcome(updateMassPositions(massesOnSurface), "ok")
                          ELSE "ok")
        /\ UNCHANGED <<userControlled, columnState, collectionVars, massState>>

step(dt) ==
    IF userControlled
    THEN /\ call' = Called("step", "none", dt, "ok")
         /\ UNCHANGED <<plankVars, userControlled, columnState, collectionVars, massState>>
    ELSE LET t    == updateNetTorque(tiltAngle, turningRight, columnState)
             acc  == Thresholded(angularAccelerationOf(t.torque))
             vel  == Thresholded(angularVelocity + acc)
             raw  == tiltAngle + TDiv(vel * dt, 100)
             tilt == ClampedTilt(raw)
         IN  /\ currentNetTorque' = t.torque
             /\ turningRight' = t.turningRight
             /\ angularVelocity' = ClampedVelocity(raw, vel)
             /\ tiltAngle' = tilt
             /\ shape' = IF tilt # tiltAngle THEN updatePlank(tilt) ELSE shape
             /\ call' = Called("step", "none", dt,
                               IF tilt # tiltAngle
                               THEN Outcome(updateMassPositions(massesOnSurface), "ok")
                               ELSE "ok")
             /\ UNCHANGED <<userControlled, columnState, collectionVars, massState>>

\* forceAngle that sets the tilt and leaves the angular velocity as it is
forceAngleMoving(angle) ==
    /\ tiltAngle' = angle
    /\ shape' = updatePlank(angle)
    /\ UNCHANGED <<angularVelocity, currentNetTorque, turningRight, userControlled,
                   columnState, collectionVars, massState>>

\* forceAngle( angle )
forceAngle(angle) ==
    /\ angularVelocity' = 0
    /\ tiltAngle' = angle
    /\ shape' = updatePlank(angle)
    /\ UNCHANGED <<currentNetTorque, turningRight, userControlled, columnState,
                   collectionVars, massState>>

forceToLevelAndStill ==
    /\ forceAngle(0)
    /\ call' = Called("forceToLevelAndStill", "none", 0,
                      Outcome(updateMassPositions(massesOnSurface), "ok"))

forceToMaxAndStill ==
    /\ forceAngle(maxTiltAngle)
    /\ call' = Called("forceToMaxAndStill", "none", 0,
                      Outcome(updateMassPositions(massesOnSurface), "ok"))

\* forceAngle( angle ), called directly: it is a method of the object handed to
\* inherit, as public as the two above
callForceAngle(angle) ==
    /\ forceAngle(angle)
    /\ call' = Called("forceAngle", "none", angle,
                      Outcome(updateMassPositions(massesOnSurface), "ok"))

\* the external column-state property is set
setColumnState(c) ==
    /\ c # columnState
    /\ columnState' = c
    /\ call' = Called("setColumnState", "none", 0, "ok")
    /\ UNCHANGED <<plankVars, userControlled, collectionVars, massState>>

\* the plank's userControlled property is set
setUserControlled(b) ==
    /\ b # userControlled
    /\ userControlled' = b
    /\ call' = Called("setUserControlled", "none", 0, "ok")
    /\ UNCHANGED <<plankVars, columnState, collectionVars, massState>>

-----------------------------------------------------------------------------
(* Attachment and detachment *)

\* getMassDistanceFromCenter( mass ): the loop runs while `i < this.massDistancePairs`,
\* a number compared with the array itself, which is false for i = 0 (an empty array
\* converts to 0, any other to NaN or to its single number), so the loop body never
\* runs and 0 is returned
getMassDistanceFromCenter(m) == 0

\* isBalanced(): the callback reads this.getMassDistanceFromCenter with `this`
\* undefined, so it throws on the first mass; with no mass the sum is 0
isBalanced(masses) == IF masses # <<>> THEN Throws("TypeError") ELSE Returns("true")

\* ObservableArray.indexOf, 1-based; 0 when absent (-1 in the source)
IndexOf(seq, x) ==
    IF \E i \in 1..Len(seq) : seq[i] = x
    THEN CHOOSE i \in 1..Len(seq) : seq[i] = x /\ \A j \in 1..(i - 1) : seq[j] # x
    ELSE 0

\* seq without its i-th element
RemoveAt(seq, i) == [j \in 1..(Len(seq) - 1) |-> IF j < i THEN seq[j] ELSE seq[j + 1]]

\* the value of seq.splice( indexOf( x ), 1 ): the removed elements.  An index of
\* -1 counts from the end, so the LAST element is removed when x is absent.
Spliced(seq, x) ==
    IF seq = <<>> THEN <<>>
    ELSE IF IndexOf(seq, x) = 0 THEN <<seq[Len(seq)]>> ELSE <<seq[IndexOf(seq, x)]>>

\* the statements of addMassToSurface from the position `position` of the mass:
\* what they leave in the mass, the collections and the result
addMassOutcome(m, position, ms) ==
    LET r == getOpenMassDroppedLocation(position, tiltAngle, massesOnSurface, ms)
        same == [massState |-> ms, massDistancePairs |-> massDistancePairs,
                 forceVectors |-> forceVectors, observers |-> observers,
                 massesOnSurface |-> massesOnSurface, result |-> "false"]
    IN  IF r.error # "none" THEN [same EXCEPT !.result = r.error]
        ELSE IF isPointAbovePlank(getMiddlePoint(position), tiltAngle, shape) /\ r.value # <<>>
        THEN LET loc == r.value[1]
                 c   == getPlankSurfaceCenter(tiltAngle)
                 d   == ISqrt(DistSq(c, loc)) * (IF loc.x > c.x THEN 1 ELSE -1)
                 on  == Append(massesOnSurface, m)
             IN  [massState |-> [ms EXCEPT ![m].position = loc, ![m].onPlank = TRUE],
                  massDistancePairs |->
                      [massDistancePairs EXCEPT
                          !.keyed = {k \in @ : k.mass # m} \cup {[mass |-> m, distance |-> d]}],
                  forceVectors |-> Append(forceVectors, m),
                  observers |-> observers \cup {m},
                  massesOnSurface |-> on,
                  \* updateMassPositions() throws on the mass just pushed, so
                  \* updateNetTorque() and `return massAdded` are not reached
                  result |-> Outcome(updateMassPositions(on), "true")]
        ELSE same

Applied(o) ==
    /\ massState' = o.massState
    /\ massDistancePairs' = o.massDistancePairs
    /\ forceVectors' = o.forceVectors
    /\ observers' = o.observers
    /\ massesOnSurface' = o.massesOnSurface

addMassToSurface(m) ==
    LET o == addMassOutcome(m, massState[m].position, massState)
    IN  /\ Applied(o)
        /\ call' = Called("addMassToSurface", m, 0, o.result)
        /\ UNCHANGED <<plankVars, userControlled, columnState>>

\* addMassToSurfaceAt( mass, distanceFromCenter ): the guard throws for every
\* distance up to PLANK_LENGTH / 2 and lets every larger one through; `assert`
\* is a global the file does not import: the call throws when its argument is
\* false, whether the global is an assertion function or is not bound at all
addMassToSurfaceAt(m, distanceFromCenter) ==
    IF distanceFromCenter <= PLANK_LENGTH \div 2
    THEN /\ call' = Called("addMassToSurfaceAt", m, distanceFromCenter, "Error")
         /\ UNCHANGED <<plankVars, userControlled, columnState, collectionVars, massState>>
    ELSE LET v == Plus(getPlankSurfaceCenter(tiltAngle),
                       Rotated(Vec(distanceFromCenter, 0), tiltAngle))
             position == Vec(v.x, v.y + 10)
             moved == [massState EXCEPT ![m].position = position]
             o == IF isPointAbovePlank(position, tiltAngle, shape)
                  THEN addMassOutcome(m, position, moved)
                  ELSE [massState |-> moved, massDistancePairs |-> massDistancePairs,
                        forceVectors |-> forceVectors, observers |-> observers,
                        massesOnSurface |-> massesOnSurface, result |-> "AssertionError"]
         IN  /\ Applied(o)
             /\ call' = Called("addMassToSurfaceAt", m, distanceFromCenter, o.result)
             /\ UNCHANGED <<plankVars, userControlled, columnState>>

\* removeMassFromSurface( mass ): what its statements leave
removedFromSurface(m) ==
    LET pairs   == massDistancePairs.array
        hit     == {i \in 1..Len(pairs) : pairs[i].mass = m}
        first   == CHOOSE i \in hit : \A j \in hit : i <= j
        \* massDistancePairs = massDistancePairs.splice( i, 1 ): the removed pair
        pairs2  == IF hit = {} THEN pairs ELSE <<pairs[first]>>
        \* the scan of forceVectors runs over massDistancePairs.length entries
        scan    == {j \in 1..Len(pairs2) : j > Len(forceVectors) \/ forceVectors[j] = m}
        stop    == CHOOSE j \in scan : \A k \in scan : j <= k
        threw   == scan # {} /\ stop > Len(forceVectors)
        t       == updateNetTorque(tiltAngle, turningRight, columnState)
    IN  [massesOnSurface |-> Spliced(massesOnSurface, m),
         massDistancePairs |-> [massDistancePairs EXCEPT !.array = pairs2],
         massState |-> [massState EXCEPT ![m].rotationAngle = 0, ![m].onPlank = FALSE],
         forceVectors |-> IF scan # {} /\ ~threw THEN RemoveAt(forceVectors, stop)
                          ELSE forceVectors,
         currentNetTorque |-> IF threw THEN currentNetTorque ELSE t.torque,
         turningRight |-> IF threw THEN turningRight ELSE t.turningRight,
         result |-> IF threw THEN "TypeError" ELSE "ok"]

\* removeMassFromSurface( mass )
removeMassFromSurface(m) ==
    LET o == removedFromSurface(m)
    IN  /\ massesOnSurface' = o.massesOnSurface
        /\ massDistancePairs' = o.massDistancePairs
        /\ massState' = o.massState
        /\ forceVectors' = o.forceVectors
        /\ currentNetTorque' = o.currentNetTorque
        /\ turningRight' = o.turningRight
        /\ call' = Called("removeMassFromSurface", m, 0, o.result)
        /\ UNCHANGED <<tiltAngle, angularVelocity, shape, userControlled, columnState, observers>>

\* the user picks a mass up: its userControlled property becomes true and the
\* observers linked on it are called.  The observer of addMassToSurface calls
\* removeMassFromSurface( mass ) and then mass.unlink( userControlledObserver ):
\* unlink is called on the mass, not on mass.userControlled, on which the observer
\* was linked; Mass is not part of the source, so the observer may or may not be
\* gone afterwards, and the call may or may not throw
pickUp(m) ==
    IF m \in observers
    THEN LET o == removedFromSurface(m)
         IN  /\ massesOnSurface' = o.massesOnSurface
             /\ massDistancePairs' = o.massDistancePairs
             /\ massState' = o.massState
             /\ forceVectors' = o.forceVectors
             /\ currentNetTorque' = o.currentNetTorque
             /\ turningRight' = o.turningRight
             /\ observers' \in {observers, observers \ {m}}
             /\ \E r \in {o.result, "TypeError"} : call' = Called("pickUp", m, 0, r)
             /\ UNCHANGED <<tiltAngle, angularVelocity, shape, userControlled, columnState>>
    ELSE /\ call' = Called("pickUp", m, 0, "ok")
         /\ UNCHANGED <<plankVars, userControlled, columnState, collectionVars, massState>>

\* removeAllMasses that ends, as removeMassFromSurface does, with updateNetTorque()
removeAllMassesRefreshing ==
    LET t == updateNetTorque(tiltAngle, turningRight, columnState)
    IN  /\ call' = Called("removeAllMasses", "none", 0,
                          IF massesOnSurface # <<>> THEN "TypeError" ELSE "ok")
        /\ currentNetTorque' = t.torque
        /\ turningRight' = t.turningRight
        /\ UNCHANGED <<tiltAngle, angularVelocity, shape, userControlled, columnState,
                       collectionVars, massState>>

\* removeAllMasses(): the callback calls thisPlank.removeMass, which the plank
\* does not define, so it throws on the first mass of the copy
removeAllMasses ==
    /\ call' = Called("removeAllMasses", "none", 0,
                      IF massesOnSurface # <<>> THEN "TypeError" ELSE "ok")
    /\ UNCHANGED <<plankVars, userControlled, columnState, collectionVars, massState>>

\* the queries, called by the collaborators
callIsBalanced ==
    /\ call' = Called("isBalanced", "none", 0, Outcome(isBalanced(massesOnSurface), "true"))
    /\ UNCHANGED <<plankVars, userControlled, columnState, collectionVars, massState>>

callGetOpenMassDroppedLocation(p) ==
    LET r == getOpenMassDroppedLocation(p, tiltAngle, massesOnSurface, massState)
    IN  /\ call' = Called("getOpenMassDroppedLocation", "none", p.x,
                          Outcome(r, IF r.value = <<>> THEN "null" ELSE "location"))
        /\ UNCHANGED <<plankVars, userControlled, columnState, collectionVars, massState>>

\* getMassDistanceFromCenter( mass ), called: the number returned is reported
\* in decimal
callGetMassDistanceFromCenter(m) ==
    /\ call' = Called("getMassDistanceFromCenter", m, 0,
                      ToString(getMassDistanceFromCenter(m)))
    /\ UNCHANGED <<plankVars, userControlled, columnState, collectionVars, massState>>

-----------------------------------------------------------------------------
(* Specifications *)

\* new Plank( location, pivotPoint, columnState ) with a pivot at height pivotY:
\* the constructor copies the pivot point (line 84) and compares it with nothing
Plank(pivotY) == Returns("ok")

\* a further plank is constructed, with its pivot at height pivotY; the plank
\* whose state is followed is the one with the pivot at the bottom centre
newPlank(pivotY) ==
    /\ call' = Called("new Plank", "none", pivotY, Outcome(Plank(pivotY), "ok"))
    /\ UNCHANGED <<plankVars, userControlled, columnState, collectionVars, massState>>

\* the plank as the constructor leaves it, with the masses lying where they
\* were created
Init ==
    /\ tiltAngle = 0
    /\ angularVelocity = 0
    /\ currentNetTorque = 0
    /\ turningRight = TRUE
    /\ shape = 0
    /\ userControlled = FALSE
    /\ columnState \in ColumnStates
    /\ massesOnSurface = <<>>
    /\ forceVectors = <<>>
    /\ massDistancePairs = [array |-> <<>>, keyed |-> {}]
    /\ observers = {}
    /\ massState = [m \in Masses |->
                      [position |-> InitialPosition(m), rotationAngle |-> 0, onPlank |-> FALSE]]
    /\ call = Called("new Plank", "none", pivotPoint.y, "ok")

\* sequences of distinct masses
Loads == {s \in UNION {[1..n -> Masses] : n \in 1..MaxAttached} :
            \A i, j \in 1..Len(s) : i # j => s[i] # s[j]}

Range(s) == {s[i] : i \in 1..Len(s)}

\* a level plank at rest that carries masses: for each mass of `load`, in order,
\* what lines 155-174 of addMassToSurface leave once a slot is resolved (the
\* position, the flag, the keyed distance, the force vector, the observer, the
\* list entry); no sequence of calls builds this state, because slot resolution
\* throws (getSnapToLocations)
InitAttached ==
    \E load \in Loads :
        /\ tiltAngle = 0
        /\ angularVelocity = 0
        /\ currentNetTorque = 0
        /\ turningRight = TRUE
        /\ shape = 0
        /\ userControlled = FALSE
        /\ columnState \in ColumnStates
        /\ massesOnSurface = load
        /\ forceVectors = load
        /\ massDistancePairs =
              [array |-> <<>>,
               keyed |-> {[mass |-> m, distance |-> SeedDistance(m)] : m \in Range(load)}]
        /\ observers = Range(load)
        /\ massState = [m \in Masses |->
              IF m \in Range(load)
              THEN [position |-> Vec(SeedDistance(m), LocationY + PLANK_THICKNESS),
                    rotationAngle |-> 0, onPlank |-> TRUE]
              ELSE [position |-> InitialPosition(m), rotationAngle |-> 0, onPlank |-> FALSE]]
        /\ call = Called("new Plank", "none", pivotPoint.y, "ok")

Next ==
    \/ \E dt \in DtValues : step(dt)
    \/ forceToLevelAndStill
    \/ forceToMaxAndStill
    \/ \E c \in ColumnStates : setColumnState(c)
    \/ \E b \in BOOLEAN : setUserControlled(b)
    \/ \E m \in Masses : addMassToSurface(m)
    \/ \E in \in AddAtInputs : addMassToSurfaceAt(in[1], in[2])
    \/ \E m \in Masses : removeMassFromSurface(m)
    \/ removeAllMasses
    \/ callIsBalanced
    \/ \E p \in DropPoints : callGetOpenMassDroppedLocation(p)

Spec == Init /\ [][Next]_vars

\* the operations on a loaded plank; the column state stays as it was set up,
\* the plank is not user controlled and the steps are large ones
NextAttached ==
    \/ step(DtLarge)
    \/ forceToLevelAndStill
    \/ forceToMaxAndStill
    \/ \E m \in Masses : addMassToSurface(m)
    \/ \E in \in AddAtInputs : addMassToSurfaceAt(in[1], in[2])
    \/ \E m \in Masses : removeMassFromSurface(m)
    \/ removeAllMasses
    \/ callIsBalanced
    \/ \E p \in DropPoints : callGetOpenMassDroppedLocation(p)
    \/ \E m \in Masses : callGetMassDistanceFromCenter(m)

SpecAttached == InitAttached /\ [][NextAttached]_vars

-----------------------------------------------------------------------------
(* Vocabulary of the properties *)

Errors == {"TypeError", "Error", "AssertionError"}

Attached(m) == m \in Range(massesOnSurface)

\* the distances recorded for a mass, in either layout of massDistancePairs
RecordsIn(pairs, m) ==
    {k.distance : k \in {k \in pairs.keyed : k.mass = m}}
    \cup {pairs.array[i].distance : i \in {i \in 1..Len(pairs.array) : pairs.array[i].mass = m}}

DistanceRecords(m) == RecordsIn(massDistancePairs, m)

\* the number of force vectors the list `vectors` holds for a mass
VectorsIn(vectors, m) == Cardinality({i \in 1..Len(vectors) : vectors[i] = m})

HalfLength == PLANK_LENGTH \div 2

\* a run of step calls with the small time step on a loaded plank: the driver
\* calls step once per tick, for ever
NextSteps == step(DtSmall)

SpecSteps == InitAttached /\ [][NextSteps]_vars /\ WF_vars(NextSteps)

\* the construction of planks and the operations that set tiltAngle, on the
\* plank the constructor leaves
NextTilting ==
    \/ \E dt \in DtValues : step(dt)
    \/ forceToLevelAndStill
    \/ forceToMaxAndStill
    \/ \E a \in ForceAngleInputs : callForceAngle(a)
    \/ \E y \in PivotYInputs : newPlank(y)
    \/ \E c \in ColumnStates : setColumnState(c)

SpecTilting == Init /\ [][NextTilting]_vars

\* the plank the constructor leaves, with the angular velocity of a plank in
\* motion: the sums of accelerations that the steps accumulate carry rounding
\* residue, so velocities next to the thresholds occur
InitMoving ==
    /\ tiltAngle = 0
    /\ angularVelocity \in VelocityInputs
    /\ currentNetTorque = 0
    /\ turningRight = TRUE
    /\ shape = 0
    /\ userControlled = FALSE
    /\ columnState \in ColumnStates
    /\ massesOnSurface = <<>>
    /\ forceVectors = <<>>
    /\ massDistancePairs = [array |-> <<>>, keyed |-> {}]
    /\ observers = {}
    /\ massState = [m \in Masses |->
                      [position |-> InitialPosition(m), rotationAngle |-> 0, onPlank |-> FALSE]]
    /\ call = Called("new Plank", "none", pivotPoint.y, "ok")

NextMoving ==
    \/ \E dt \in DtValues : step(dt)
    \/ \E b \in BOOLEAN : setUserControlled(b)

SpecMoving == InitMoving /\ [][NextMoving]_vars

\* the handling of masses on a loaded plank at rest: attaching, detaching and
\* picking up, with no step in between
NextHandling ==
    \/ \E m \in Masses : addMassToSurface(m)
    \/ \E in \in AddAtInputs : addMassToSurfaceAt(in[1], in[2])
    \/ \E m \in Masses : removeMassFromSurface(m)
    \/ removeAllMasses
    \/ \E m \in Masses : pickUp(m)

SpecHandling == InitAttached /\ [][NextHandling]_vars

-----------------------------------------------------------------------------
(* Properties *)

\* C1: after every call of step(dt), whatever dt, the column state and the masses,
\* |tiltAngle| <= maxTiltAngle.
C1_TiltWithinLimitAfterStep == call.op = "step" => Abs(tiltAngle) <= maxTiltAngle

\* C1 witness: a large step has driven the moving plank into the left end stop.
C1_Witness ==
    /\ call.op = "step"
    /\ call.arg = DtLarge
    /\ tiltAngle = -maxTiltAngle
    /\ angularVelocity = 0

C6_RemoveAllOnEmptyPlank ==
    [][(call'.op = "removeAllMasses" /\ massesOnSurface = <<>>) =>
          /\ call'.result = "ok"
          /\ UNCHANGED <<plankVars, userControlled, columnState, collectionVars, massState>>
      ]_vars

\* C6 witness: removeAllMasses has returned on an empty plank on which the torque
\* had been set by a step.
C6_Witness ==
    /\ call.op = "removeAllMasses"
    /\ call.result = "ok"
    /\ massesOnSurface = <<>>
    /\ currentNetTorque # 0

\* C7: addMassToSurfaceAt(mass, d) with |d| > length/2, d positive or negative, is
\* rejected and leaves the collections, tiltAngle and the mass (position, attached
\* flag) as they were.
C7_OutOfRangeRejectedUnchanged ==
    [][(call'.op = "addMassToSurfaceAt" /\ Abs(call'.arg) > HalfLength) =>
          /\ call'.result \in Errors
          /\ UNCHANGED <<collectionVars, tiltAngle, massState>>
      ]_vars

\* d names a slot other than the centre that no attached mass is recorded at
FreeSlot(d) ==
    /\ d # 0
    /\ Abs(d) < HalfLength
    /\ d % INTER_SNAP_TO_MARKER_DISTANCE = 0
    /\ \A m \in Range(massesOnSurface) : d \notin DistanceRecords(m)

\* C8: addMassToSurfaceAt(mass, d) with |d| <= length/2, d a free slot other than
\* the centre and the mass not attached, is not rejected: afterwards the mass is
\* attached and its recorded signed distance is d.
C8_InRangeAttachesAtDistance ==
    [][(/\ call'.op = "addMassToSurfaceAt"
        /\ Abs(call'.arg) <= HalfLength
        /\ FreeSlot(call'.arg)
        /\ ~Attached(call'.mass)) =>
          /\ call'.result \notin Errors
          /\ call'.mass \in Range(massesOnSurface')
          /\ RecordsIn(massDistancePairs', call'.mass) = {call'.arg}
      ]_vars

\* the mass's reference point is not above the surface, or slot resolution
\* returns no slot
NoPlaceFor(m) ==
    \/ ~isPointAbovePlank(getMiddlePoint(massState[m].position), tiltAngle, shape)
    \/ getOpenMassDroppedLocation(massState[m].position, tiltAngle,
                                  massesOnSurface, massState) = Returns(<<>>)

\* C9: addMassToSurface(mass) returns the failure result (false) and changes
\* nothing whenever the mass's reference point is not above the plank or slot
\* resolution yields no open slot.
C9_NoPlaceReturnsFalseUnchanged ==
    [][(call'.op = "addMassToSurface" /\ NoPlaceFor(call'.mass)) =>
          /\ call'.result = "false"
          /\ UNCHANGED <<collectionVars, currentNetTorque, massState>>
      ]_vars

\* the slot at `loc` is occupied: an attached mass lies within a tenth of the
\* marker distance of it
Occupied(loc) ==
    \E m \in Range(massesOnSurface) :
        100 * DistSq(massState[m].position, loc)
            < INTER_SNAP_TO_MARKER_DISTANCE * INTER_SNAP_TO_MARKER_DISTANCE

\* the drop point of the last slot resolution
AskedPoint == CHOOSE p \in DropPoints : p.x = call.arg

\* an attached mass sits within one marker distance, horizontally, of p
MassNear(p) ==
    \E m \in Range(massesOnSurface) :
        Abs(massState[m].position.x - p.x) <= INTER_SNAP_TO_MARKER_DISTANCE

EntriesIn(masses, m) == Cardinality({i \in 1..Len(masses) : masses[i] = m})

C12_ColumnsLockThePlank ==
    [][(columnState # "none" /\ columnState' = columnState) =>
          /\ (call'.op = "step" /\ ~userControlled) => currentNetTorque' = 0
          /\ (call'.op = "removeMassFromSurface" /\ call'.result = "ok") =>
                 currentNetTorque' = 0
          /\ call'.op = "step" => tiltAngle' = tiltAngle
      ]_vars


\* the distance recorded for a mass, mm; 0 when nothing is recorded
RecordedDistance(pairs, m) ==
    IF RecordsIn(pairs, m) = {} THEN 0 ELSE CHOOSE d \in RecordsIn(pairs, m) : TRUE

\* sum over the attached masses of massValue * signed distance from the centre,
\* kg mm
RECURSIVE MassTorqueSum(_, _)
MassTorqueSum(masses, pairs) ==
    IF masses = <<>> THEN 0
    ELSE massValue(Head(masses)) * RecordedDistance(pairs, Head(masses))
            + MassTorqueSum(Tail(masses), pairs)

\* the plank's own contribution: its mass times the horizontal offset between
\* the pivot and the plank's centre, kg mm
PlankTorque == PLANK_MASS * (pivotPoint.x - bottomCenterLocation.x)

\* the call just made has run updateNetTorque to its end
TorqueUpdated ==
    \/ call'.op = "step" /\ ~userControlled
    \/ call'.op = "removeMassFromSurface" /\ call'.result = "ok"

\* C13: with columnState "none", the net torque a torque update leaves is the sum
\* over the attached masses of massValue * signed distance plus the plank's own
\* contribution; it is 0 for an empty plank whose pivot is at the plank's centre.
C13_NetTorqueIsSumOfMoments ==
    [][(TorqueUpdated /\ columnState = "none" /\ columnState' = "none") =>
          1000 * currentNetTorque'
              = MassTorqueSum(massesOnSurface', massDistancePairs') + PlankTorque
      ]_vars


\* the plank carries exactly the masses of `load`, each with its one recorded
\* distance, and no column supports it
Carries(load) ==
    /\ columnState = "none"
    /\ ~userControlled
    /\ Range(massesOnSurface) = load
    /\ Len(massesOnSurface) = Cardinality(load)
    /\ \A m \in load : DistanceRecords(m) = {SeedDistance(m)}

InEquilibrium == MassTorqueSum(massesOnSurface, massDistancePairs) = 0

C17_StepIsNoOpWhileUserControlled ==
    [][(call'.op = "step" /\ userControlled) =>
          /\ UNCHANGED <<tiltAngle, angularVelocity, currentNetTorque, shape>>
          /\ massState' = massState
          /\ call'.result = "ok"
      ]_vars

\* C17 witness: step has been called on a user-controlled plank that was moving
\* under a non-zero torque, with no column in place.
C17_Witness ==
    /\ call.op = "step"
    /\ userControlled
    /\ columnState = "none"
    /\ angularVelocity # 0
    /\ currentNetTorque # 0
    /\ Abs(tiltAngle) < maxTiltAngle


\* the tilt the step just made carries the plank to before any limit is applied:
\* tiltAngle + angularVelocity * dt, with the velocity the step has integrated
\* from the torque it has computed
CarriedTilt ==
    LET vel == Thresholded(angularVelocity
                             + Thresholded(angularAccelerationOf(currentNetTorque')))
    IN  tiltAngle + TDiv(vel * call'.arg, 100)

\* C18: a step that would carry tiltAngle past a tilt limit
\* (|tiltAngle + angularVelocity * dt| > maxTiltAngle) ends with tiltAngle exactly
\* +maxTiltAngle or -maxTiltAngle, on the side of the overflow, and with
\* angularVelocity exactly 0.
C18_OverflowClampsExactly ==
    [][(call'.op = "step" /\ ~userControlled /\ Abs(CarriedTilt) > maxTiltAngle) =>
          /\ tiltAngle' = IF CarriedTilt > 0 THEN maxTiltAngle ELSE -maxTiltAngle
          /\ angularVelocity' = 0
      ]_vars

\* C18 witness: a small step under a torque to the right has ended at the right
\* end stop, at rest.
C18_Witness ==
    /\ call.op = "step"
    /\ call.arg = DtSmall
    /\ ~userControlled
    /\ currentNetTorque > 0
    /\ tiltAngle = maxTiltAngle
    /\ angularVelocity = 0


PlaceOnSurface(d, tilt) == Plus(getPlankSurfaceCenter(tilt), Rotated(Vec(d, 0), tilt))

C23_TiltAlwaysWithinLimit ==
    /\ tiltAngle <= maxTiltAngle
    /\ tiltAngle >= -maxTiltAngle


\* C24: a plank whose pivot lies below the plank is rejected with an error when
\* it is constructed; a plank whose pivot is at the bottom centre or above it is
\* rejected neither at construction nor by a later step or forceAngle.
C24_PivotBelowPlankRejected ==
    /\ call.op = "new Plank" =>
          (call.arg < bottomCenterLocation.y <=> call.result = "Error")
    /\ call.op \in {"step", "forceAngle", "forceToLevelAndStill", "forceToMaxAndStill"} =>
          call.result # "Error"


\* the slots of the tilted surface other than the centre one that no attached
\* mass occupies and that lie within one marker distance, horizontally, of p
CandidateSlots(p) ==
    {loc \in Range(WithoutCentre(getSnapToLocationsFilled(tiltAngle).value)) :
        /\ ~Occupied(loc)
        /\ Abs(loc.x - p.x) <= INTER_SNAP_TO_MARKER_DISTANCE}

\* C25: slot resolution for a drop point p returns one of the unoccupied slots
\* within one marker distance (0.25 m) of p horizontally that is nearest to p, and
\* returns no slot exactly when there is no such slot.
C25_ResolutionReturnsNearestInRange ==
    call.op = "getOpenMassDroppedLocation" =>
        LET p == AskedPoint
            r == getOpenMassDroppedLocation(p, tiltAngle, massesOnSurface, massState)
        IN  /\ r.error = "none"
            /\ call.result = (IF CandidateSlots(p) = {} THEN "null" ELSE "location")
            /\ r.value # <<>> =>
                  /\ r.value[1] \in CandidateSlots(p)
                  /\ \A c \in CandidateSlots(p) : DistSq(r.value[1], p) <= DistSq(c, p)


\* the offsets of the slots from the centre, mm: the multiples of the marker
\* distance from -2.0 m to +2.0 m, the centre left out
SlotOffsets ==
    {k * INTER_SNAP_TO_MARKER_DISTANCE : k \in -8..8} \ {0}

\* C26: the candidates are the N = floor(length / marker distance) - 1 = 17
\* evenly spaced slots without the centre one: resolution on the level plank
\* works on the 16 slots at the multiples of 0.25 m from -2.0 m to +2.0 m except
\* 0, never returns the slot at the centre, and no mass is recorded at distance 0.
C26_SixteenSlotsWithoutCentre ==
    /\ NUM_SNAP_TO_LOCATIONS = 17
    /\ \A m \in Masses : 0 \notin DistanceRecords(m)
    /\ (call.op = "getOpenMassDroppedLocation" /\ tiltAngle = 0) =>
          LET s == getSnapToLocations(tiltAngle)
              r == getOpenMassDroppedLocation(AskedPoint, tiltAngle, massesOnSurface, massState)
          IN  /\ s.error = "none"
              /\ Len(WithoutCentre(s.value)) = 16
              /\ {loc.x - bottomCenterLocation.x : loc \in Range(WithoutCentre(s.value))}
                    = SlotOffsets
              /\ r.value # <<>> => r.value[1].x # bottomCenterLocation.x


C30_ForcedPlankStaysStill ==
    [][/\ call'.op = "forceToLevelAndStill" => (tiltAngle' = 0 /\ angularVelocity' = 0)
       /\ call'.op = "forceToMaxAndStill" =>
             (tiltAngle' = maxTiltAngle /\ angularVelocity' = 0)
       /\ (/\ call'.op = "step"
           /\ columnState # "none"
           /\ angularVelocity = 0
           /\ tiltAngle \in {0, maxTiltAngle}) =>
                (tiltAngle' = tiltAngle /\ angularVelocity' = 0)
      ]_vars

\* C30 witness: a step has run on a plank held by the single column at the
\* maximum tilt, and the plank is still there and still.
C30_Witness ==
    /\ call.op = "step"
    /\ columnState = "singleColumn"
    /\ tiltAngle = maxTiltAngle
    /\ angularVelocity = 0
    /\ currentNetTorque = 0

====
